---- MODULE Spec2Model ----
(***************************************************************************)
(* Weather Advisor: the intent parser (parse_weather_question, with the    *)
(* optional Ollama extractor and the rule-based fallback), the location    *)
(* sanitiser, the forecast slice selector, the day metric extractors and   *)
(* the human-first response generator of test.py.                          *)
(*                                                                         *)
(* Text is modelled as a sequence of one-character strings, so lower(),    *)
(* strip(), substring tests and the regular expressions act on characters  *)
(* as they do in the source.                                               *)
(***************************************************************************)
EXTENDS Integers, Sequences, FiniteSets, TLC

VARIABLES
    pc,            \* position of the running call: "idle", "waiting", "done",
                   \* "ready", "answered", "sanitized", "resanitized"
    question,      \* argument of parse_weather_question (characters, or None)
    disabled,      \* WEATHER_ADVISOR_DISABLE_OLLAMA == "1"
    requests,      \* number of requests.post calls made by the running call
    reply,         \* what the extractor endpoint did with the request
    tags,          \* the local `tags` of parse_weather_question
    result,        \* the value returned by parse_weather_question
    parsed,        \* argument parsed_question of the response functions
    weather_data,  \* argument weather_data of the response functions
    d0,            \* the daily record the day functions are applied to
    selected_days, \* the local `selected_days` / return of _pick_day_slice
    answer,        \* the value returned by the response function under check
    raw_location,  \* argument raw of sanitize_location (characters, or None)
    sanitized,     \* the value returned by sanitize_location(raw)
    resanitized    \* the value returned by sanitize_location(sanitized)

\* the variables of the calls of sanitize_location
sanitizer == <<raw_location, sanitized, resanitized>>

vars == <<pc, question, disabled, requests, reply, tags, result,
          parsed, weather_data, d0, selected_days, answer, sanitizer>>

\* Python's None where a string is expected: no sequence of characters equals it
None == <<"None">>

(***************************************************************************)
(* Characters and strings                                                  *)
(***************************************************************************)
UpperChars == <<"A","B","C","D","E","F","G","H","I","J","K","L","M",
                "N","O","P","Q","R","S","T","U","V","W","X","Y","Z">>

LowerChars == <<"a","b","c","d","e","f","g","h","i","j","k","l","m",
                "n","o","p","q","r","s","t","u","v","w","x","y","z">>

DigitChars == <<"0","1","2","3","4","5","6","7","8","9">>

Range(f) == {f[i] : i \in DOMAIN f}

IsUpper(c) == c \in Range(UpperChars)

IsLetter(c) == c \in Range(UpperChars) \cup Range(LowerChars)

IsDigit(c) == c \in Range(DigitChars)

\* \s of the re module
IsSpace(c) == c \in {" ", "\t", "\n"}

\* \w of the re module
IsWordChar(c) == IsLetter(c) \/ IsDigit(c) \/ c = "_"

\* int() of one decimal digit
DigitValue(c) == (CHOOSE i \in DOMAIN DigitChars : DigitChars[i] = c) - 1

LowerChar(c) ==
    IF IsUpper(c)
    THEN LowerChars[CHOOSE i \in DOMAIN UpperChars : UpperChars[i] = c]
    ELSE c

\* str.lower()
RECURSIVE Lower(_)
Lower(s) == IF s = <<>> THEN <<>> ELSE <<LowerChar(s[1])>> \o Lower(Tail(s))

\* str.strip(): leading and trailing characters of `drop` removed
StripChars(s, drop) ==
    LET keepIdx == {i \in DOMAIN s : s[i] \notin drop}
    IN  IF keepIdx = {} THEN <<>>
        ELSE LET lo == CHOOSE i \in keepIdx : \A j \in keepIdx : i <= j
                 hi == CHOOSE i \in keepIdx : \A j \in keepIdx : i >= j
             IN  SubSeq(s, lo, hi)

Strip(s) == StripChars(s, {" ", "\t", "\n"})

\* s[i:] starts with k
StartsAt(s, i, k) ==
    /\ i >= 1
    /\ i + Len(k) - 1 <= Len(s)
    /\ \A j \in 1..Len(k) : s[i + j - 1] = k[j]

\* k in s
Contains(s, k) == \E i \in 1..(Len(s) - Len(k) + 1) : StartsAt(s, i, k)

\* any(w in s for w in ks)
ContainsAny(s, ks) == \E k \in ks : Contains(s, k)

\* the number of consecutive characters of s from position i that satisfy
\* the class test, at most `most`
RECURSIVE RunLen(_, _, _, _)
RunLen(s, i, cls, most) ==
    IF most = 0 \/ i > Len(s) \/ s[i] \notin cls THEN 0
    ELSE 1 + RunLen(s, i + 1, cls, most - 1)

\* \b before position i (1-based) of s
WordBoundary(s, i) ==
    LET before == i > 1 /\ i - 1 <= Len(s) /\ IsWordChar(s[i - 1])
        after  == i >= 1 /\ i <= Len(s) /\ IsWordChar(s[i])
    IN  before # after

\* " ".join(words)
RECURSIVE Join(_)
Join(words) ==
    IF words = <<>> THEN <<>>
    ELSE IF Len(words) = 1 THEN words[1]
    ELSE words[1] \o <<" ">> \o Join(Tail(words))

\* [p for p in re.split(seps+, s) if p]
RECURSIVE SplitOn(_, _)
SplitOn(s, seps) ==
    IF s = <<>> THEN <<>>
    ELSE IF s[1] \in seps THEN SplitOn(Tail(s), seps)
    ELSE LET n == RunLen(s, 1, Range(s) \ seps, Len(s))
         IN  <<SubSeq(s, 1, n)>> \o SplitOn(SubSeq(s, n + 1, Len(s)), seps)

(***************************************************************************)
(* Location sanitizer                                                      *)
(***************************************************************************)
_TIME_TOKENS == {
    <<"t","o","d","a","y">>, <<"t","o","m","o","r","r","o","w">>,
    <<"t","o","n","i","g","h","t">>, <<"w","e","e","k","e","n","d">>,
    <<"m","o","r","n","i","n","g">>, <<"a","f","t","e","r","n","o","o","n">>,
    <<"e","v","e","n","i","n","g">>, <<"n","e","x","t">>, <<"d","a","y">>,
    <<"d","a","y","s">>, <<"w","e","e","k">>, <<"w","e","e","k","s">>,
    <<"m","o","n","t","h">>, <<"m","o","n","t","h","s">>,
    <<"m","o","n","d","a","y">>, <<"t","u","e","s","d","a","y">>,
    <<"w","e","d","n","e","s","d","a","y">>, <<"t","h","u","r","s","d","a","y">>,
    <<"f","r","i","d","a","y">>, <<"s","a","t","u","r","d","a","y">>,
    <<"s","u","n","d","a","y">>, <<"t","h","i","s">> }

_PREP_TOKENS == { <<"i","n">>, <<"a","t">>, <<"o","n">>, <<"f","o","r">> }

\* str.isdigit(): non-empty and all digits
IsDigitStr(s) == s # <<>> /\ \A i \in DOMAIN s : IsDigit(s[i])

\* the character class [A-Za-z\s\-\',] of the re.sub in sanitize_location
SanitizeKeeps(c) == IsLetter(c) \/ IsSpace(c) \/ c \in {"-", "'", ","}

\* re.sub(r"[^A-Za-z\s\-\',]", " ", s)
RECURSIVE Blanked(_)
Blanked(s) ==
    IF s = <<>> THEN <<>>
    ELSE <<IF SanitizeKeeps(s[1]) THEN s[1] ELSE " ">> \o Blanked(Tail(s))

\* KeepToken comparing the token as written, not lower-cased
KeepToken_CaseSensitive(p) ==
    /\ p \notin _TIME_TOKENS
    /\ p \notin _PREP_TOKENS
    /\ ~IsDigitStr(p)

\* the loop over parts: the tokens that are kept
KeepToken(p) ==
    LET low == Lower(p)
    IN  /\ low \notin _TIME_TOKENS
        /\ low \notin _PREP_TOKENS
        /\ ~IsDigitStr(low)

\* sanitize_location dropping the tokens before it blanks the characters
sanitize_location_FilterBeforeClean(r) ==
    IF r = None THEN <<>>
    ELSE LET parts == SplitOn(Strip(r), {",", " ", "\t", "\n"})
             keep  == SelectSeq(parts, KeepToken)
         IN  StripChars(Blanked(Join(keep)), {" ", ","})

\* sanitize_location(raw); a raw that is not a string is None here
sanitize_location(raw) ==
    IF raw = None THEN <<>>
    ELSE LET stripped == Strip(raw)
             cleaned  == Blanked(stripped)
             parts    == SplitOn(cleaned, {",", " ", "\t", "\n"})
             keep     == SelectSeq(parts, KeepToken)
         IN  StripChars(Join(keep), {" ", ","})

(***************************************************************************)
(* Numbers read from text                                                  *)
(***************************************************************************)
MAX_FORECAST_DAYS == 5

Max(a, b) == IF a >= b THEN a ELSE b

Min(a, b) == IF a <= b THEN a ELSE b

\* the value of a non-empty run of decimal digits
RECURSIVE DigitsValue(_)
DigitsValue(s) ==
    IF s = <<>> THEN 0
    ELSE 10 * DigitsValue(SubSeq(s, 1, Len(s) - 1)) + DigitValue(s[Len(s)])

\* int(s) of a string: surrounding whitespace, an optional sign, decimal
\* digits; anything else raises ValueError (ok = FALSE)
StrToInt(s) ==
    LET t    == Strip(s)
        sign == t # <<>> /\ t[1] \in {"+", "-"}
        body == IF sign THEN Tail(t) ELSE t
    IN  IF IsDigitStr(body)
        THEN [ok |-> TRUE,
              val |-> IF sign /\ t[1] = "-" THEN 0 - DigitsValue(body)
                      ELSE DigitsValue(body)]
        ELSE [ok |-> FALSE, val |-> 0]

\* ClampDays without its upper limit: max(1, n)
ClampDays_NoUpperLimit(n) == Max(1, n)

\* max(1, min(MAX_FORECAST_DAYS, n))
ClampDays(n) == Max(1, Min(MAX_FORECAST_DAYS, n))

(***************************************************************************)
(* JSON values and the text of the extractor's answer                      *)
(*                                                                         *)
(* A JSON value is a record tagged by its type.  A string is held as       *)
(* characters where the code reads its characters (location, days) and as  *)
(* a TLA+ string where the code only compares it (when, attribute).  A     *)
(* float is held in tenths.  The answer text is a sequence of lexical      *)
(* tokens: braces, commas, "key": value members, whitespace, prose, and    *)
(* bare scalars.                                                           *)
(***************************************************************************)
JNull == [t |-> "null"]

JInt(n) == [t |-> "int", v |-> n]

JFloat10(n) == [t |-> "float", v |-> n]

JNaN == [t |-> "nan"]

JBool(b) == [t |-> "bool", v |-> b]

JStr(s) == [t |-> "str", v |-> s]

LBrace == [tok |-> "lbrace"]

RBrace == [tok |-> "rbrace"]

Comma == [tok |-> "comma"]

Space == [tok |-> "space"]

Prose == [tok |-> "prose"]

Scalar(v) == [tok |-> "scalar", v |-> v]

Member(k, v) == [tok |-> "member", k |-> k, v |-> v]

\* int(x) of a decoded JSON value
IntOf(x) ==
    CASE x.t = "int"   -> [ok |-> TRUE, val |-> x.v]
      [] x.t = "bool"  -> [ok |-> TRUE, val |-> IF x.v THEN 1 ELSE 0]
      [] x.t = "float" -> [ok |-> TRUE,
                           val |-> IF x.v >= 0 THEN x.v \div 10
                                   ELSE 0 - ((0 - x.v) \div 10)]
      [] x.t = "str"   -> StrToInt(x.v)
      [] OTHER         -> [ok |-> FALSE, val |-> 0]

\* bool(x) of a decoded JSON value (the `or` of p.get("location") or "")
Truthy(x) ==
    CASE x.t = "null"  -> FALSE
      [] x.t = "int"   -> x.v # 0
      [] x.t = "float" -> x.v # 0
      [] x.t = "bool"  -> x.v
      [] x.t = "str"   -> x.v # <<>>
      [] OTHER         -> TRUE

\* text.strip() on the token text
StripText(text) ==
    LET keepIdx == {i \in DOMAIN text : text[i] # Space}
    IN  IF keepIdx = {} THEN <<>>
        ELSE LET lo == CHOOSE i \in keepIdx : \A j \in keepIdx : i <= j
                 hi == CHOOSE i \in keepIdx : \A j \in keepIdx : i >= j
             IN  SubSeq(text, lo, hi)

\* s, e = text.find("{"), text.rfind("}"); if s != -1 and e != -1: text[s:e+1]
BraceSlice(text) ==
    LET ls == {i \in DOMAIN text : text[i] = LBrace}
        rs == {i \in DOMAIN text : text[i] = RBrace}
    IN  IF ls = {} \/ rs = {} THEN text
        ELSE LET s == CHOOSE i \in ls : \A j \in ls : i <= j
                 e == CHOOSE i \in rs : \A j \in rs : i >= j
             IN  SubSeq(text, s, e)

\* members separated by single commas
RECURSIVE IsMemberList(_)
IsMemberList(ts) ==
    \/ ts = <<>>
    \/ /\ Len(ts) = 1
       /\ ts[1].tok = "member"
    \/ /\ Len(ts) >= 3
       /\ ts[1].tok = "member"
       /\ ts[2] = Comma
       /\ IsMemberList(SubSeq(ts, 3, Len(ts)))
       /\ Len(ts) > 2

\* json.loads(text): ok = FALSE is JSONDecodeError; isobj tells a dict from
\* any other decoded value
JsonLoads(text) ==
    LET ts == SelectSeq(text, LAMBDA x : x # Space)
    IN  IF Len(ts) = 1 /\ ts[1].tok = "scalar"
        THEN [ok |-> TRUE, isobj |-> FALSE, members |-> <<>>]
        ELSE IF /\ Len(ts) >= 2
                /\ ts[1] = LBrace
                /\ ts[Len(ts)] = RBrace
                /\ IsMemberList(SubSeq(ts, 2, Len(ts) - 1))
        THEN [ok |-> TRUE, isobj |-> TRUE,
              members |-> SelectSeq(SubSeq(ts, 2, Len(ts) - 1),
                                    LAMBDA x : x.tok = "member")]
        ELSE [ok |-> FALSE, isobj |-> FALSE, members |-> <<>>]

\* p.get(key, default) on the decoded dict: the last member of that key
DictGet(members, key, default) ==
    LET idx == {i \in DOMAIN members : members[i].k = key}
    IN  IF idx = {} THEN default
        ELSE members[CHOOSE i \in idx : \A j \in idx : i >= j].v

(***************************************************************************)
(* parse_weather_question                                                  *)
(***************************************************************************)
Whens == {"today", "tomorrow", "next_n_days"}

Attributes == {"temperature", "rain", "precipitation", "wind", "humidity",
               "summary"}

TagNames == {"umbrella", "feel_cold", "feel_warm", "feel_hot", "windy",
             "humid", "clothing", "outdoors", "safety"}

\* the keyword lists of the tag rules
FeelVerbs ==
    { <<"f","e","e","l">>, <<"w","i","l","l"," ","i">>, <<"d","o"," ","i">> }

\* the words that give each tag
TagWords ==
    [ umbrella |->
       { <<"u","m","b","r","e","l","l","a">>,
         <<"r","a","i","n","c","o","a","t">> },
      windy |->
       { <<"w","i","n","d","y">>,
         <<"s","t","r","o","n","g"," ","w","i","n","d">>, <<"g","u","s","t">> },
      humid |->
       { <<"h","u","m","i","d">>, <<"m","u","g","g","y">>,
         <<"s","t","i","c","k","y">> },
      clothing |->
       { <<"j","a","c","k","e","t">>, <<"c","o","a","t">>,
         <<"s","w","e","a","t","e","r">>, <<"h","o","o","d","i","e">> },
      outdoors |->
       { <<"r","u","n">>, <<"p","i","c","n","i","c">>, <<"b","e","a","c","h">>,
         <<"h","i","k","e">>, <<"o","u","t","d","o","o","r">>,
         <<"g","a","m","e">> },
      safety |->
       { <<"c","a","n","c","e","l">>, <<"s","a","f","e">>,
         <<"d","a","n","g","e","r","o","u","s">>, <<"s","t","o","r","m">> } ]

\* "feel" in qlow or "will i" in qlow or "do i" in qlow
FeelVerb(qlow) == ContainsAny(qlow, FeelVerbs)

\* "feel X" in qlow or (X in qlow and (a feeling verb in qlow))
FeelTag(qlow, feelx, x) ==
    Contains(qlow, feelx) \/ (Contains(qlow, x) /\ FeelVerb(qlow))

\* the tag set built from the lower-cased question
Tags(qlow) ==
    (IF ContainsAny(qlow, TagWords.umbrella) THEN {"umbrella"} ELSE {})
    \cup (IF FeelTag(qlow, <<"f","e","e","l"," ","c","o","l","d">>, <<"c","o","l","d">>)
          THEN {"feel_cold"} ELSE {})
    \cup (IF FeelTag(qlow, <<"f","e","e","l"," ","w","a","r","m">>, <<"w","a","r","m">>)
          THEN {"feel_warm"} ELSE {})
    \cup (IF FeelTag(qlow, <<"f","e","e","l"," ","h","o","t">>, <<"h","o","t">>)
          THEN {"feel_hot"} ELSE {})
    \cup (IF ContainsAny(qlow, TagWords.windy) THEN {"windy"} ELSE {})
    \cup (IF ContainsAny(qlow, TagWords.humid) THEN {"humid"} ELSE {})
    \cup (IF ContainsAny(qlow, TagWords.clothing) THEN {"clothing"} ELSE {})
    \cup (IF ContainsAny(qlow, TagWords.outdoors) THEN {"outdoors"} ELSE {})
    \cup (IF ContainsAny(qlow, TagWords.safety) THEN {"safety"} ELSE {})

\* the return value for an empty or whitespace question
DefaultIntent ==
    [location |-> None, days |-> 3, when |-> "today", attribute |-> "summary",
     tags |-> {}, question_text |-> <<>>]

\* the longest run the location group may take after its first letter
LocRunMax == 60

\* the class [A-Za-z\s\-'] of the location group
LocClass == Range(UpperChars) \cup Range(LowerChars)
            \cup {" ", "\t", "\n", "-", "'"}

\* the alternation in|at|for of the location pattern
LocPreps == { <<"i","n">>, <<"a","t">>, <<"f","o","r">> }

\* a run of \s+ starting at position i that ends before position j
SpacesThen(s, i) == i + RunLen(s, i, {" ", "\t", "\n"}, Len(s))

\* the match of \b(?:in|at|for)\s+([A-Za-z][A-Za-z\s\-']{1,60}) that starts
\* at position i with keyword k: the positions of its group, or <<>>
LocGroupAt(s, i, k) ==
    LET a == i + Len(k)
        j == SpacesThen(s, a)
        n == RunLen(s, j + 1, LocClass, LocRunMax)
    IN  IF /\ WordBoundary(s, i)
           /\ StartsAt(s, i, k)
           /\ j > a
           /\ j <= Len(s)
           /\ IsLetter(s[j])
           /\ n >= 1
        THEN <<j, j + n>>
        ELSE <<>>

\* re.search of the location pattern: the positions of group 1 of the
\* leftmost match, or <<>>
LocGroup(s) ==
    LET hits == {i \in DOMAIN s : \E k \in LocPreps : LocGroupAt(s, i, k) # <<>>}
    IN  IF hits = {} THEN <<>>
        ELSE LET i == CHOOSE h \in hits : \A g \in hits : h <= g
                 k == CHOOSE w \in LocPreps : LocGroupAt(s, i, w) # <<>>
             IN  LocGroupAt(s, i, k)

\* m.group(1) of the location pattern searched in s, or None
LocSearch(s) ==
    LET g == LocGroup(s)
    IN  IF g = <<>> THEN None ELSE SubSeq(s, g[1], g[2])

\* sanitize_location(x) or None
OrNone(x) == IF x = <<>> THEN None ELSE x

\* loc of the rule-based fallback
RuleLocation(qlow) ==
    LET m == LocSearch(qlow)
    IN  IF m = None THEN None ELSE OrNone(sanitize_location(m))

\* the match of \bnext\s+(\d)\s+day at position i: the position of its
\* digit, or 0
NextDayAt(s, i) ==
    LET a == i + 4
        d == SpacesThen(s, a)
        b == d + 1
        e == SpacesThen(s, b)
    IN  IF /\ WordBoundary(s, i)
           /\ StartsAt(s, i, <<"n","e","x","t">>)
           /\ d > a
           /\ d <= Len(s)
           /\ IsDigit(s[d])
           /\ e > b
           /\ StartsAt(s, e, <<"d","a","y">>)
        THEN d
        ELSE 0

\* re.search of the "next N day" pattern: int(group 1) of the leftmost
\* match, or -1
NextDaySearch(s) ==
    LET hits == {i \in DOMAIN s : NextDayAt(s, i) # 0}
    IN  IF hits = {} THEN -1
        ELSE DigitValue(s[NextDayAt(s, CHOOSE h \in hits : \A g \in hits : h <= g)])

\* days, when of the rule-based fallback: <<when, days>>
RuleWindow(qlow) ==
    LET w1 == IF Contains(qlow, <<"t","o","m","o","r","r","o","w">>) THEN <<"tomorrow", 1>>
              ELSE <<"today", 3>>
        n  == NextDaySearch(qlow)
        w2 == IF n # -1 THEN <<"next_n_days", ClampDays(n)>> ELSE w1
    IN  IF Contains(qlow, <<"w","e","e","k","e","n","d">>) THEN <<"next_n_days", 3>> ELSE w2

\* the keyword lists of the attribute rules, in their order
RainKeywords ==
    { <<"r","a","i","n">>, <<"u","m","b","r","e","l","l","a">>,
      <<"p","r","e","c","i","p">> }

WindKeywords ==
    { <<"w","i","n","d","y">>, <<"w","i","n","d">>, <<"g","u","s","t">> }

HumidityKeywords ==
    { <<"h","u","m","i","d">>, <<"h","u","m","i","d","i","t","y">>,
      <<"m","u","g","g","y">> }

TemperatureKeywords ==
    { <<"h","o","t">>, <<"c","o","l","d">>, <<"w","a","r","m">>,
      <<"t","e","m","p">>, <<"t","e","m","p","e","r","a","t","u","r","e">> }

\* RuleAttribute with the wind keywords tested before the rain keywords
RuleAttribute_WindFirst(qlow) ==
    IF ContainsAny(qlow, WindKeywords) THEN "wind"
    ELSE IF ContainsAny(qlow, RainKeywords) THEN "precipitation"
    ELSE IF ContainsAny(qlow, HumidityKeywords) THEN "humidity"
    ELSE IF ContainsAny(qlow, TemperatureKeywords) THEN "temperature"
    ELSE "summary"

\* attribute of the rule-based fallback
RuleAttribute(qlow) ==
    IF ContainsAny(qlow, RainKeywords) THEN "precipitation"
    ELSE IF ContainsAny(qlow, WindKeywords) THEN "wind"
    ELSE IF ContainsAny(qlow, HumidityKeywords) THEN "humidity"
    ELSE IF ContainsAny(qlow, TemperatureKeywords) THEN "temperature"
    ELSE "summary"

\* the rule-based fallback of parse_weather_question
RuleBased(qorig, tagset) ==
    LET qlow == Lower(qorig)
        w    == RuleWindow(qlow)
    IN  [location |-> RuleLocation(qlow), days |-> w[2], when |-> w[1],
         attribute |-> RuleAttribute(qlow), tags |-> tagset,
         question_text |-> qorig]

(***************************************************************************)
(* _call_ollama and the extractor branch of parse_weather_question         *)
(***************************************************************************)
\* what requests.post, raise_for_status and res.json() can do with the one
\* request: raise (a timeout, a connection error, a non-success status, a
\* body that is no JSON, a body that is no JSON object, a "response" that is
\* no string), or deliver the "response" text
FailureKinds == {"timeout", "connection", "status", "body_not_json",
                 "body_not_object", "response_not_string"}

NoReply == [kind |-> "none", text |-> <<>>]

Failure(k) == [kind |-> k, text |-> <<>>]

Delivered(text) == [kind |-> "ok", text |-> text]

\* the None that _call_ollama returns
NoneText == <<[tok |-> "None"]>>

\* the return value of _call_ollama once the request was made
CallOllama(r) ==
    IF r.kind = "ok" THEN BraceSlice(StripText(r.text)) ELSE NoneText

\* sanitize_location(p.get("location") or "") or None
LlmLocation(members) ==
    LET x   == DictGet(members, "location", JNull)
        raw == IF Truthy(x) THEN x ELSE JStr(<<>>)
    IN  OrNone(sanitize_location(IF raw.t = "str" THEN raw.v ELSE None))

\* int(p.get("days", 3)): ok = FALSE when int() raises
LlmDays(members) == IntOf(DictGet(members, "days", JInt(3)))

\* when = p.get("when", "today"), "today" unless one of the three values
LlmWhen(members) ==
    LET x == DictGet(members, "when", JStr("today"))
    IN  IF x.t = "str" /\ x.v \in Whens THEN x.v ELSE "today"

\* attr = p.get("attribute", "summary"), "summary" unless one of the six
LlmAttribute(members) ==
    LET x == DictGet(members, "attribute", JStr("summary"))
    IN  IF x.t = "str" /\ x.v \in Attributes THEN x.v ELSE "summary"

\* the try block over llm_text: raised = TRUE when json.loads, p.get or
\* int() raises, and the except clause passes
LlmIntent(llm_text, qorig, tagset) ==
    LET p == JsonLoads(llm_text)
    IN  IF ~p.ok \/ ~p.isobj \/ ~LlmDays(p.members).ok
        THEN [raised |-> TRUE, intent |-> DefaultIntent]
        ELSE [raised |-> FALSE,
              intent |-> [location |-> LlmLocation(p.members),
                          days |-> ClampDays(LlmDays(p.members).val),
                          when |-> LlmWhen(p.members),
                          attribute |-> LlmAttribute(p.members),
                          tags |-> tagset, question_text |-> qorig]]

\* parse_weather_question from the return of _call_ollama to its own return
AfterCall(llm_text, qorig, tagset) ==
    LET tried == LlmIntent(llm_text, qorig, tagset)
    IN  IF llm_text # NoneText /\ llm_text # <<>> /\ ~tried.raised
        THEN tried.intent
        ELSE RuleBased(qorig, tagset)

\* qorig = (question or "").strip()
QOrig(q) == IF q = None THEN <<>> ELSE Strip(q)

\* RequestsAfterReply with a second attempt after a failed one
RequestsAfterReply_Retry(n, r) == IF r.kind = "ok" THEN n ELSE n + 1

\* the number of requests after the extractor has answered or failed: the
\* try block of _call_ollama has no loop and parse_weather_question calls
\* it once
RequestsAfterReply(n, r) == n

NoResult == [location |-> None, days |-> 0, when |-> "unset",
             attribute |-> "unset", tags |-> {}, question_text |-> <<>>]

Idle == "unused"

\* parse_weather_question(question) with an empty or whitespace question
ParseEmpty ==
    /\ pc = "idle"
    /\ QOrig(question) = <<>>
    /\ result' = DefaultIntent
    /\ pc' = "done"
    /\ UNCHANGED <<sanitizer, question, disabled, requests, reply, tags,
                   parsed, weather_data, d0, selected_days, answer>>

\* parse_weather_question(question) with the extractor disabled:
\* _call_ollama returns None without a request
ParseDisabled ==
    /\ pc = "idle"
    /\ QOrig(question) # <<>>
    /\ disabled
    /\ tags' = Tags(Lower(QOrig(question)))
    /\ result' = AfterCall(NoneText, QOrig(question), tags')
    /\ pc' = "done"
    /\ UNCHANGED <<sanitizer, question, disabled, requests, reply,
                   parsed, weather_data, d0, selected_days, answer>>

\* parse_weather_question(question) up to requests.post in _call_ollama
ParseCall ==
    /\ pc = "idle"
    /\ QOrig(question) # <<>>
    /\ ~disabled
    /\ tags' = Tags(Lower(QOrig(question)))
    /\ requests' = requests + 1
    /\ pc' = "waiting"
    /\ UNCHANGED <<sanitizer, question, disabled, reply, result,
                   parsed, weather_data, d0, selected_days, answer>>

\* the request ends with r, and parse_weather_question runs to its return
ParseReturn(r) ==
    /\ pc = "waiting"
    /\ reply' = r
    /\ requests' = RequestsAfterReply(requests, r)
    /\ result' = AfterCall(CallOllama(r), QOrig(question), tags)
    /\ pc' = "done"
    /\ UNCHANGED <<sanitizer, question, disabled, tags,
                   parsed, weather_data, d0, selected_days, answer>>

(***************************************************************************)
(* Inputs of the parser                                                    *)
(***************************************************************************)
\* the most phrases a question is put together from
MaxPhrases == 2

\* the questions made of at most n phrases of the pool, joined by spaces
QuestionsOf(pool, n) ==
    {Join(ws) : ws \in UNION {[1..k -> pool] : k \in 0..n}}

RulePhrases == {
    <<"D","o"," ","I"," ","n","e","e","d"," ","a","n"," ","u","m","b","r","e","l","l","a"," ","t","o","m","o","r","r","o","w">>,
    <<"i","n"," ","P","e","r","t","h","?">>,
    <<"W","h","a","t"," ","a","b","o","u","t"," ","n","e","x","t"," ","4"," ","d","a","y","s">>,
    <<"i","n"," ","M","e","l","b","o","u","r","n","e">>,
    <<"t","h","i","s"," ","w","e","e","k","e","n","d">>,
    <<"n","e","x","t"," ","2"," ","d","a","y","s">>,
    <<"n","e","x","t"," ","1","0"," ","d","a","y","s">>,
    <<"N","E","X","T"," "," ","0"," ","d","a","y","s">>,
    <<"n","e","x","t"," ","7"," ","d","a","y">>,
    <<"I","s"," ","i","t"," ","w","i","n","d","y">>,
    <<"h","o","t"," ","a","n","d"," ","h","u","m","i","d">>,
    <<"r","a","i","n">>,
    <<"H","o","w"," ","c","o","l","d">>,
    <<"a","t"," ","P","o","r","t","-","H","e","d","l","a","n","d"," ","t","o","m","o","r","r","o","w">>,
    <<"f","o","r"," ","K","i","n","g","'","s"," ","L","y","n","n",","," ","U","K">>,
    <<"W","e","a","t","h","e","r">>,
    <<"m","u","g","g","y">>,
    <<"o","n"," ","3"," ","M","a","y">> }

ParsePhrases == {
    <<" "," ">>,
    <<"D","o"," ","I"," ","n","e","e","d"," ","a","n"," ","u","m","b","r","e","l","l","a">>,
    <<"n","e","x","t"," ","2"," ","d","a","y","s"," ","i","n"," ","P","e","r","t","h">> }

Q_Perth == Join(<<<<"D","o"," ","I"," ","n","e","e","d"," ","a","n"," ","u","m","b","r","e","l","l","a"," ","t","o","m","o","r","r","o","w">>,
                  <<"i","n"," ","P","e","r","t","h","?">>>>)

Q_Melbourne == Join(<<<<"W","h","a","t"," ","a","b","o","u","t"," ","n","e","x","t"," ","4"," ","d","a","y","s">>,
                      <<"i","n"," ","M","e","l","b","o","u","r","n","e">>>>)

\* values the extractor may give each key; Absent leaves the key out
Absent == [t |-> "absent"]

\* the members of an object text, separated by commas
RECURSIVE WithCommas(_)
WithCommas(ms) ==
    IF Len(ms) <= 1 THEN ms
    ELSE <<ms[1], Comma>> \o WithCommas(Tail(ms))

ObjectText(loc, days, when, attr) ==
    LET all == <<Member("location", loc), Member("days", days),
                 Member("when", when), Member("attribute", attr)>>
    IN  <<LBrace>> \o WithCommas(SelectSeq(all, LAMBDA m : m.v # Absent))
        \o <<RBrace>>

ObjectTexts ==
    {ObjectText(l, d, w, a) :
        l \in {Absent, JInt(5), JStr(<<"P","e","r","t","h"," ","t","o","m","o","r","r","o","w">>)},
        d \in {Absent, JNull, JInt(0), JInt(4), JInt(9), JFloat10(27), JBool(TRUE), JNaN, JStr(<<" ","2">>), JStr(<<"a","b","c">>)},
        w \in {Absent, JStr("tomorrow"), JStr("next_n_days"), JStr("weekend")},
        a \in {Absent, JNull, JStr("wind"), JStr("snow")}}

\* an object inside surrounding prose and whitespace
Wrapped(obj) == <<Space, Prose, Space>> \o obj \o <<Space, Prose>>

\* answers that hold no single JSON object
BrokenTexts ==
    { <<>>, <<Space>>, <<Prose>>, <<Scalar(JInt(3))>>,
      <<RBrace, Prose, LBrace>>,
      <<LBrace, Member("days", JInt(2))>>,
      <<LBrace, Member("days", JInt(2)), Member("when", JStr("tomorrow")), RBrace>>,
      <<LBrace, RBrace, Prose, LBrace, RBrace>> }

\* an object that repeats a key
RepeatedKeyText ==
    <<LBrace, Member("days", JInt(2)), Comma, Member("days", JInt(4)), RBrace>>

Replies ==
    {Failure(k) : k \in FailureKinds}
    \cup {Delivered(x) : x \in ObjectTexts}
    \cup {Delivered(Wrapped(x)) : x \in ObjectTexts}
    \cup {Delivered(x) : x \in BrokenTexts \cup {RepeatedKeyText}}

(***************************************************************************)
(* Specifications of the parser                                            *)
(***************************************************************************)
SanitizerIdle ==
    /\ raw_location = Idle
    /\ sanitized = Idle
    /\ resanitized = Idle

ResponseIdle ==
    /\ SanitizerIdle
    /\ parsed = Idle
    /\ weather_data = Idle
    /\ d0 = Idle
    /\ selected_days = Idle
    /\ answer = Idle

\* one call of parse_weather_question, with the extractor enabled or not
InitParse ==
    /\ pc = "idle"
    /\ question \in {None} \cup QuestionsOf(ParsePhrases, MaxPhrases)
    /\ disabled \in BOOLEAN
    /\ requests = 0
    /\ reply = NoReply
    /\ tags = {}
    /\ result = NoResult
    /\ ResponseIdle

NextParse ==
    \/ ParseEmpty
    \/ ParseDisabled
    \/ ParseCall
    \/ \E r \in Replies : ParseReturn(r)

SpecParse == InitParse /\ [][NextParse]_vars

\* one call of parse_weather_question with
\* WEATHER_ADVISOR_DISABLE_OLLAMA=1
InitRules ==
    /\ pc = "idle"
    /\ question \in QuestionsOf(RulePhrases, MaxPhrases)
    /\ disabled = TRUE
    /\ requests = 0
    /\ reply = NoReply
    /\ tags = {}
    /\ result = NoResult
    /\ ResponseIdle

NextRules ==
    \/ ParseEmpty
    \/ ParseDisabled

SpecRules == InitRules /\ [][NextRules]_vars

(***************************************************************************)
(* Forecast records and the day metric extractors                          *)
(*                                                                         *)
(* A daily record holds its fields as wttr.in delivers them: text, or None *)
(* for a key that is missing.  A line of the answer is a tuple of text     *)
(* pieces; the answer is the sequence of its lines.  The dash, degree and   *)
(* bullet signs of the source's texts are written in ASCII.                *)
(***************************************************************************)
\* the characters of s as one piece of text
RECURSIVE Text(_)
Text(s) == IF s = <<>> THEN "" ELSE s[1] \o Text(Tail(s))

\* d.get(key, default) shown in an f-string
Shown(x, default) == IF x = None THEN default ELSE Text(x)

\* int(h.get(key, 0)): a missing key reads as 0, text that is no integer raises
HourInt(x) == IF x = None THEN [ok |-> TRUE, val |-> 0] ELSE StrToInt(x)

\* _to_int(s): ok = FALSE is the default None
_to_int(x) == IF x = None THEN [ok |-> FALSE, val |-> 0] ELSE StrToInt(x)

\* the loop of _max_rain_chance and _wind_max_kmph over the hours' values
RECURSIVE MaxOver(_, _)
MaxOver(values, sofar) ==
    IF values = <<>> THEN sofar
    ELSE LET c == HourInt(values[1])
         IN  MaxOver(Tail(values), IF c.ok /\ c.val > sofar THEN c.val ELSE sofar)

Hourly(day) == day.hourly

_max_rain_chance(day) ==
    MaxOver([i \in DOMAIN Hourly(day) |-> Hourly(day)[i].chanceofrain], 0)

_wind_max_kmph(day) ==
    MaxOver([i \in DOMAIN Hourly(day) |-> Hourly(day)[i].windspeedKmph], 0)

\* total and count of _avg_humidity: <<total, count>>
RECURSIVE HumiditySum(_)
HumiditySum(hours) ==
    IF hours = <<>> THEN <<0, 0>>
    ELSE LET c    == HourInt(hours[1].humidity)
             rest == HumiditySum(Tail(hours))
         IN  IF c.ok THEN <<rest[1] + c.val, rest[2] + 1>> ELSE rest

\* int(round(total / count)): Python 3 rounds a half to the even neighbour
RoundDiv(total, count) ==
    LET q == total \div count
        r == total % count
    IN  IF 2 * r < count THEN q
        ELSE IF 2 * r > count THEN q + 1
        ELSE IF q % 2 = 0 THEN q ELSE q + 1

_avg_humidity(day) ==
    LET tc == HumiditySum(Hourly(day))
    IN  IF tc[2] # 0 THEN RoundDiv(tc[1], tc[2]) ELSE 0

NoDesc == "None"

\* _midday_desc(day): the first midday hour decides if it has a description,
\* else the first hour that has one, else None
_midday_desc(day) ==
    LET hs   == Hourly(day)
        mid  == {i \in DOMAIN hs : hs[i].time \in {"1200", "900", "1500"}}
        desc == {i \in DOMAIN hs : hs[i].weatherDesc # NoDesc}
        m    == CHOOSE i \in mid : \A j \in mid : i <= j
    IN  IF mid # {} /\ hs[m].weatherDesc # NoDesc THEN hs[m].weatherDesc
        ELSE IF desc # {}
        THEN hs[CHOOSE i \in desc : \A j \in desc : i <= j].weatherDesc
        ELSE NoDesc

\* the text of an integer in an f-string
IntText(n) == ToString(n)

_day_brief(day) ==
    LET chance == _max_rain_chance(day)
        d      == _midday_desc(day)
        desc   == IF d = NoDesc THEN "--" ELSE d
    IN  <<day.date, ": ~", Shown(day.avgtempC, "?"), "C (min ",
          Shown(day.mintempC, "?"), "C / max ", Shown(day.maxtempC, "?"),
          "C), rain up to ", IntText(chance), "%, ", desc>>

(***************************************************************************)
(* Comfort heuristics                                                      *)
(***************************************************************************)
_feel_label(avgc) ==
    IF ~avgc.ok THEN "mild"
    ELSE IF avgc.val <= 16 THEN "cold"
    ELSE IF avgc.val >= 27 THEN "warm"
    ELSE "mild"

\* _pleasant_yesno with the cold limit one degree lower
_pleasant_yesno_ColdBelow10(day) ==
    LET avgc == _to_int(day.avgtempC)
        rain == _max_rain_chance(day)
        wind == _wind_max_kmph(day)
        hum  == _avg_humidity(day)
    IN  IF rain >= 60 THEN "No, conditions look wet."
        ELSE IF wind >= 60 THEN "No, it'll be very windy."
        ELSE IF avgc.ok /\ (avgc.val < 10 \/ avgc.val >= 33)
        THEN "No, temperatures look uncomfortable."
        ELSE IF hum >= 85 THEN "No, it may feel uncomfortably humid."
        ELSE IF (30 <= rain /\ rain < 60) \/ (40 <= wind /\ wind < 60)
        THEN "Maybe--conditions are borderline."
        ELSE "Yes, it should be pleasant."

_pleasant_yesno(day) ==
    LET avgc == _to_int(day.avgtempC)
        rain == _max_rain_chance(day)
        wind == _wind_max_kmph(day)
        hum  == _avg_humidity(day)
    IN  IF rain >= 60 THEN "No, conditions look wet."
        ELSE IF wind >= 60 THEN "No, it'll be very windy."
        ELSE IF avgc.ok /\ (avgc.val <= 10 \/ avgc.val >= 33)
        THEN "No, temperatures look uncomfortable."
        ELSE IF hum >= 85 THEN "No, it may feel uncomfortably humid."
        ELSE IF (30 <= rain /\ rain < 60) \/ (40 <= wind /\ wind < 60)
        THEN "Maybe--conditions are borderline."
        ELSE "Yes, it should be pleasant."

(***************************************************************************)
(* _pick_day_slice                                                         *)
(***************************************************************************)
\* days_list[a:b] of Python, 0-based and end-exclusive, for 0 <= a
Slice(list, a, b) == SubSeq(list, a + 1, Min(b, Len(list)))

_pick_day_slice(wd, when, days) ==
    LET days_list == wd.forecast
    IN  IF days_list = <<>> THEN <<>>
        ELSE IF when = "tomorrow" /\ Len(days_list) >= 2 THEN Slice(days_list, 1, 2)
        ELSE IF when = "next_n_days" THEN Slice(days_list, 0, days)
        ELSE Slice(days_list, 0, 1)

(***************************************************************************)
(* _human_first_sentence and generate_weather_response                     *)
(***************************************************************************)
\* when.replace("_", " ") on the values a `when` takes
WhenText(when) == IF when = "next_n_days" THEN "next n days" ELSE when

\* {"today": "Today", "tomorrow": "Tomorrow"}.get(when,
\* when.replace("_", " ").title()) on the values a `when` takes
WhenTitle(when) ==
    CASE when = "next_n_days" -> "Next N Days"
      [] when = "today"       -> "Today"
      [] when = "tomorrow"    -> "Tomorrow"

\* the alternation of the yes/no opening pattern
YesNoOpeners == { <<"d","o">>, <<"s","h","o","u","l","d">>, <<"w","i","l","l">>, <<"i","s">>, <<"c","a","n">>, <<"a","r","e">>, <<"a","m">> }

\* re.match(r"^\s*(do|should|will|is|can|are|am)\b", q)
YesNoOpening(q) ==
    LET i == SpacesThen(q, 1)
    IN  \E k \in YesNoOpeners :
            StartsAt(q, i, k) /\ WordBoundary(q, i + Len(k))

\* branch 1: feel_cold
FeelColdLine(avgc, when_txt, loc) ==
    IF avgc.ok /\ avgc.val <= 16
    THEN <<"Yes, you will feel cold ", when_txt, " in ", loc, ".">>
    ELSE <<"No, it should feel ",
           IF avgc.ok /\ avgc.val >= 24 THEN "warm" ELSE "mild",
           " ", when_txt, " in ", loc, ".">>

\* branch 1, second test: feel_warm or feel_hot
FeelWarmLine(avgc, when_txt, loc) ==
    IF avgc.ok /\ avgc.val >= 27
    THEN <<"Yes, it will feel warm ", when_txt, " in ", loc, ".">>
    ELSE <<"No, it won't be warm--more like ",
           IF avgc.ok /\ avgc.val <= 16 THEN "cool" ELSE "mild", ".">>

\* branch 2: umbrella / rain
UmbrellaLine(rain, when_txt, loc) ==
    IF rain >= 60
    THEN <<"Yes, bring an umbrella ", when_txt, " in ", loc, ".">>
    ELSE IF rain >= 30
    THEN <<"Maybe--pack a small umbrella just in case ", when_txt, " in ", loc, ".">>
    ELSE <<"No, you probably don't need an umbrella ", when_txt, " in ", loc, ".">>

\* branch 3: windy
WindLine(wind, when_txt, loc) ==
    IF wind >= 60
    THEN <<"Yes, it'll be very windy ", when_txt, " in ", loc,
           " (gusts ~", IntText(wind), " km/h).">>
    ELSE IF wind >= 40
    THEN <<"Somewhat--expect windy conditions ", when_txt, " in ", loc,
           " (up to ~", IntText(wind), " km/h).">>
    ELSE <<"No, just light to moderate winds ", when_txt, " in ", loc, ".">>

\* branch 4: humidity
HumidLine(hum, when_txt, loc) ==
    IF hum >= 70
    THEN <<"Yes, it may feel muggy ", when_txt, " in ", loc,
           " (humidity ~", IntText(hum), "%).">>
    ELSE <<"No, humidity looks manageable ", when_txt, " in ", loc,
           " (around ", IntText(hum), "%).">>

\* the text of avgc, an int or None, in an f-string
AvgText(avgc) == IF avgc.ok THEN IntText(avgc.val) ELSE "None"

\* branch 5: clothing hints
ClothingLine(avgc, when_txt, loc) ==
    IF _feel_label(avgc) = "cold"
    THEN <<"Yes, take a jacket--", when_txt, " in ", loc,
           " looks chilly (avg ~", AvgText(avgc), "C).">>
    ELSE IF _feel_label(avgc) = "warm"
    THEN <<"No heavy layers needed--", when_txt, " in ", loc,
           " looks warm (avg ~", AvgText(avgc), "C).">>
    ELSE <<"A light layer should be fine--", when_txt, " in ", loc,
           " looks mild (avg ~", AvgText(avgc), "C).">>

\* branches 6 and 7: the pleasantness verdict
PleasantLine(day, when_txt, loc) ==
    <<_pleasant_yesno(day), " ", when_txt, " in ", loc>>

\* branch 8: the default summary
SummaryLine(day, when_txt, loc) ==
    <<"In ", loc, " ", when_txt, ", expect ", _feel_label(_to_int(day.avgtempC)),
      " conditions around ", Shown(day.avgtempC, "?"), "C (min ",
      Shown(day.mintempC, "?"), "C / max ", Shown(day.maxtempC, "?"),
      "C) with up to ", IntText(_max_rain_chance(day)), "% chance of rain.">>

\* _human_first_sentence with the umbrella branch tested before the
\* feel branches
_human_first_sentence_UmbrellaFirst(p, wd, day) ==
    LET when_txt == WhenText(p.when)
        loc      == wd.location
        avgc     == _to_int(day.avgtempC)
    IN  IF "umbrella" \in p.tags \/ p.attribute \in {"rain", "precipitation"}
        THEN UmbrellaLine(_max_rain_chance(day), when_txt, loc)
        ELSE IF "feel_cold" \in p.tags
        THEN FeelColdLine(avgc, when_txt, loc)
        ELSE IF "feel_warm" \in p.tags \/ "feel_hot" \in p.tags
        THEN FeelWarmLine(avgc, when_txt, loc)
        ELSE IF "windy" \in p.tags \/ p.attribute = "wind"
        THEN WindLine(_wind_max_kmph(day), when_txt, loc)
        ELSE IF "humid" \in p.tags \/ p.attribute = "humidity"
        THEN HumidLine(_avg_humidity(day), when_txt, loc)
        ELSE IF "clothing" \in p.tags
        THEN ClothingLine(avgc, when_txt, loc)
        ELSE IF "safety" \in p.tags \/ "outdoors" \in p.tags
        THEN PleasantLine(day, when_txt, loc)
        ELSE IF YesNoOpening(Lower(p.question_text))
        THEN PleasantLine(day, when_txt, loc)
        ELSE SummaryLine(day, when_txt, loc)

_human_first_sentence(p, wd, day) ==
    LET q        == Lower(p.question_text)
        when_txt == WhenText(p.when)
        loc      == wd.location
        avgc     == _to_int(day.avgtempC)
        rain     == _max_rain_chance(day)
        wind     == _wind_max_kmph(day)
        hum      == _avg_humidity(day)
    IN  IF "feel_cold" \in p.tags
        THEN FeelColdLine(avgc, when_txt, loc)
        ELSE IF "feel_warm" \in p.tags \/ "feel_hot" \in p.tags
        THEN FeelWarmLine(avgc, when_txt, loc)
        ELSE IF "umbrella" \in p.tags \/ p.attribute \in {"rain", "precipitation"}
        THEN UmbrellaLine(rain, when_txt, loc)
        ELSE IF "windy" \in p.tags \/ p.attribute = "wind"
        THEN WindLine(wind, when_txt, loc)
        ELSE IF "humid" \in p.tags \/ p.attribute = "humidity"
        THEN HumidLine(hum, when_txt, loc)
        ELSE IF "clothing" \in p.tags
        THEN ClothingLine(avgc, when_txt, loc)
        ELSE IF "safety" \in p.tags \/ "outdoors" \in p.tags
        THEN PleasantLine(day, when_txt, loc)
        ELSE IF YesNoOpening(q)
        THEN PleasantLine(day, when_txt, loc)
        ELSE SummaryLine(day, when_txt, loc)

\* the "if not weather_data" of generate_weather_response
NoWeatherData == [location |-> "", forecast |-> <<>>, present |-> FALSE]

Apology == << <<"Sorry, I couldn't retrieve weather data right now.">> >>

NoForecast(loc) == << <<"Sorry, I couldn't find a forecast for ", loc, ".">> >>

\* the header line of the forecast block
HeaderLine(loc, when, n) ==
    IF n = 1
    THEN <<"Forecast for ", loc, " -- ", WhenTitle(when), ":">>
    ELSE <<"Forecast for ", loc, " -- next ", IntText(n), " days:">>

\* "* " + _day_brief(day) for each selected day
Bullets(days) == [i \in DOMAIN days |-> <<"* ">> \o _day_brief(days[i])]

\* generate_weather_response with the apology given for an empty slice too
generate_weather_response_ApologyForEmpty(p, wd) ==
    LET sel == _pick_day_slice(wd, p.when, p.days)
    IN  IF ~wd.present \/ sel = <<>> THEN Apology
        ELSE <<_human_first_sentence(p, wd, sel[1]), <<>>,
               HeaderLine(wd.location, p.when, Len(sel))>> \o Bullets(sel)

generate_weather_response(p, wd) ==
    LET sel == _pick_day_slice(wd, p.when, p.days)
    IN  IF ~wd.present THEN Apology
        ELSE IF sel = <<>> THEN NoForecast(wd.location)
        ELSE <<_human_first_sentence(p, wd, sel[1]), <<>>,
               HeaderLine(wd.location, p.when, Len(sel))>> \o Bullets(sel)

(***************************************************************************)
(* Inputs of the response functions                                        *)
(***************************************************************************)
\* an hourly record as wttr.in delivers it: numbers as text
Hour(time, rain, wind, hum, desc) ==
    [time |-> time, chanceofrain |-> rain, windspeedKmph |-> wind,
     humidity |-> hum, weatherDesc |-> desc]

\* the hourly records the days are put together from: each threshold of the
\* metrics from both sides, and one record whose values cannot be read
Hours ==
    { Hour("0", <<"0">>, <<"5">>, <<"4","0">>, "Clear"),
      Hour("300", <<"2","9">>, <<"5">>, <<"4","0">>, NoDesc),
      Hour("900", <<"3","0">>, <<"5">>, <<"4","0">>, "Light rain"),
      Hour("600", <<"5","9">>, <<"5">>, <<"4","0">>, "Rain"),
      Hour("1200", <<"6","0">>, <<"5">>, <<"4","0">>, "Heavy rain"),
      Hour("300", <<"0">>, <<"3","9">>, <<"4","0">>, NoDesc),
      Hour("1500", <<"0">>, <<"4","0">>, <<"4","0">>, "Breezy"),
      Hour("600", <<"0">>, <<"5","9">>, <<"4","0">>, "Windy"),
      Hour("1200", <<"0">>, <<"6","0">>, <<"4","0">>, NoDesc),
      Hour("300", <<"0">>, <<"5">>, <<"6","9">>, NoDesc),
      Hour("900", <<"0">>, <<"5">>, <<"7","0">>, "Mist"),
      Hour("600", <<"0">>, <<"5">>, <<"8","4">>, "Fog"),
      Hour("2100", <<"0">>, <<"5">>, <<"8","5">>, "Fog"),
      Hour("1200", <<"6","0">>, <<"5">>, <<"8","5">>, "Heavy rain"),
      Hour("1200", <<"0">>, <<"6","0">>, <<"8","5">>, NoDesc),
      Hour("900", None, <<"c","a","l","m">>, <<>>, NoDesc) }

\* the most hourly records a day carries
MaxHours == 2

\* avgtempC as delivered: text around each threshold, text that is no
\* integer, or no value at all
AvgTemps == {None, <<"?">>, <<"9">>, <<"1","0">>, <<"1","1">>, <<"1","6">>,
             <<"1","7">>, <<"2","4">>, <<"2","6">>, <<"2","7">>, <<"3","2">>,
             <<"3","3">>}

DayOf(date, avg, hourly) ==
    [date |-> date, avgtempC |-> avg, mintempC |-> <<"7">>,
     maxtempC |-> IF avg = None THEN None ELSE <<"3","5">>, hourly |-> hourly]

HourliesUpTo(n) == UNION {[1..k -> Hours] : k \in 0..n}

\* the days _pleasant_yesno is applied to
PleasantDays ==
    {DayOf("2025-10-14", a, h) : a \in AvgTemps, h \in HourliesUpTo(MaxHours)}

\* the most nuance tags an intent given to _human_first_sentence carries
MaxTags == 2

TagSetsUpTo(n) == {ts \in SUBSET TagNames : Cardinality(ts) <= n}

\* question texts: two yes/no openings, and two that are none
LeadQuestions == {
    <<"W","i","l","l"," ","i","t"," ","b","e"," ","n","i","c","e"," ","o","u","t">>,
    <<" "," ","I","S"," ","i","t"," ","o","k">>,
    <<"D","o","e","s"," ","i","t"," ","m","a","t","t","e","r">> }

IntentOf(when, days, attr, tagset, text) ==
    [location |-> None, days |-> days, when |-> when, attribute |-> attr,
     tags |-> tagset, question_text |-> text]

LeadIntents ==
    {IntentOf(w, 1, a, ts, q) : w \in {"tomorrow", "next_n_days"}, a \in Attributes,
                                ts \in TagSetsUpTo(MaxTags), q \in LeadQuestions}

\* the days _human_first_sentence is applied to: no hour or one hour, and
\* the average temperatures around the limits of its branches
LeadDays ==
    {DayOf("2025-10-14", a, h) :
        a \in {None, <<"?">>, <<"9">>, <<"1","6">>, <<"1","7">>, <<"2","4">>,
               <<"2","6">>, <<"2","7">>},
        h \in HourliesUpTo(1)}

Bundle(loc, forecast) == [location |-> loc, forecast |-> forecast, present |-> TRUE]

\* daily records that differ in every field
Week ==
    << DayOf("2025-10-14", <<"9">>,
             <<Hour("0", <<"0">>, <<"5">>, <<"4","0">>, "Clear")>>),
       DayOf("2025-10-15", <<"2","7">>,
             <<Hour("900", <<"3","0">>, <<"5">>, <<"4","0">>, "Light rain"),
               Hour("1200", <<"0">>, <<"6","0">>, <<"4","0">>, NoDesc)>>),
       DayOf("2025-10-16", None, <<>>),
       DayOf("2025-10-17", <<"1","7">>,
             <<Hour("900", None, <<"c","a","l","m">>, <<>>, NoDesc),
               Hour("2100", <<"0">>, <<"5">>, <<"8","5">>, "Fog")>>) >>

\* the number of different daily records the forecasts are made of
NumDayRecords == 2

\* the forecasts: up to MAX_FORECAST_DAYS records, in any order, repeats
\* included
Forecasts ==
    UNION {[1..k -> {Week[i] : i \in 1..NumDayRecords}] : k \in 0..MAX_FORECAST_DAYS}

\* the intents generate_weather_response is given
RespondIntents ==
    {IntentOf(w, n, a, ts, <<"W","i","l","l"," ","i","t"," ","b","e"," ","n","i","c","e"," ","o","u","t">>) :
        w \in Whens, n \in 1..MAX_FORECAST_DAYS, a \in {"summary", "rain"},
        ts \in {{}, {"feel_cold"}, {"outdoors"}}}

(***************************************************************************)
(* Specifications of the response functions                                *)
(***************************************************************************)
ParserIdle ==
    /\ SanitizerIdle
    /\ question = Idle
    /\ disabled = TRUE
    /\ requests = 0
    /\ reply = NoReply
    /\ tags = {}
    /\ result = NoResult

\* _pleasant_yesno(day)
Pleasant ==
    /\ pc = "ready"
    /\ answer' = _pleasant_yesno(d0)
    /\ pc' = "answered"
    /\ UNCHANGED <<sanitizer, question, disabled, requests, reply, tags, result,
                   parsed, weather_data, d0, selected_days>>

InitPleasant ==
    /\ pc = "ready"
    /\ d0 \in PleasantDays
    /\ parsed = Idle
    /\ weather_data = Idle
    /\ selected_days = Idle
    /\ answer = Idle
    /\ ParserIdle

SpecPleasant == InitPleasant /\ [][Pleasant]_vars

\* _human_first_sentence(parsed, weather_data, day)
Lead ==
    /\ pc = "ready"
    /\ answer' = _human_first_sentence(parsed, weather_data, d0)
    /\ pc' = "answered"
    /\ UNCHANGED <<sanitizer, question, disabled, requests, reply, tags, result,
                   parsed, weather_data, d0, selected_days>>

InitLead ==
    /\ pc = "ready"
    /\ parsed \in LeadIntents
    /\ d0 \in LeadDays
    /\ weather_data = Bundle("Perth", <<d0>>)
    /\ selected_days = Idle
    /\ answer = Idle
    /\ ParserIdle

SpecLead == InitLead /\ [][Lead]_vars

\* _pick_day_slice(weather_data, when, days)
PickSlice ==
    /\ pc = "ready"
    /\ selected_days' = _pick_day_slice(weather_data, parsed.when, parsed.days)
    /\ pc' = "answered"
    /\ UNCHANGED <<sanitizer, question, disabled, requests, reply, tags, result,
                   parsed, weather_data, d0, answer>>

InitSlice ==
    /\ pc = "ready"
    /\ parsed \in {IntentOf(w, n, "summary", {}, <<>>) :
                      w \in Whens \cup {"weekend"}, n \in 1..MAX_FORECAST_DAYS}
    /\ weather_data \in {Bundle("Perth", f) : f \in Forecasts}
    /\ d0 = Idle
    /\ selected_days = Idle
    /\ answer = Idle
    /\ ParserIdle

SpecSlice == InitSlice /\ [][PickSlice]_vars

\* generate_weather_response(parsed_question, weather_data)
Respond ==
    /\ pc = "ready"
    /\ selected_days' = IF weather_data.present
                        THEN _pick_day_slice(weather_data, parsed.when, parsed.days)
                        ELSE selected_days
    /\ answer' = generate_weather_response(parsed, weather_data)
    /\ pc' = "answered"
    /\ UNCHANGED <<sanitizer, question, disabled, requests, reply, tags, result,
                   parsed, weather_data, d0>>

InitRespond ==
    /\ pc = "ready"
    /\ parsed \in RespondIntents
    /\ weather_data \in {NoWeatherData}
                        \cup {Bundle(l, f) : l \in {"Perth", "King's Lynn"},
                                             f \in Forecasts}
    /\ d0 = Idle
    /\ selected_days = Idle
    /\ answer = Idle
    /\ ParserIdle

SpecRespond == InitRespond /\ [][Respond]_vars

(***************************************************************************)
(* Specification of the location sanitizer                                 *)
(***************************************************************************)
\* the most pieces a raw location is put together from
MaxPieces == 3

\* the pieces of a raw location: separators, characters that are blanked, a
\* number, prepositions and time words in several capitalisations (to and
\* DAY put together read today), and letters that make other words of them
RawPieces ==
    { <<" ">>, <<",">>, <<"\t">>, <<"-">>, <<"'">>, <<"?">>, <<"7">>,
      <<"i","n">>, <<"O","n">>, <<"t","o">>, <<"D","A","Y">>, <<"s">>,
      <<"P","e","r","t","h">> }

RECURSIVE Concat(_)
Concat(ps) == IF ps = <<>> THEN <<>> ELSE ps[1] \o Concat(Tail(ps))

\* the raw locations: up to n pieces written one after the other
RawsOf(pool, n) == UNION {{Concat(ps) : ps \in [1..k -> pool]} : k \in 0..n}

ParserAndResponseIdle ==
    /\ question = Idle
    /\ disabled = TRUE
    /\ requests = 0
    /\ reply = NoReply
    /\ tags = {}
    /\ result = NoResult
    /\ parsed = Idle
    /\ weather_data = Idle
    /\ d0 = Idle
    /\ selected_days = Idle
    /\ answer = Idle

\* sanitize_location(raw)
Sanitize ==
    /\ pc = "ready"
    /\ sanitized' = sanitize_location(raw_location)
    /\ pc' = "sanitized"
    /\ UNCHANGED <<raw_location, resanitized, question, disabled, requests,
                   reply, tags, result, parsed, weather_data, d0,
                   selected_days, answer>>

\* sanitize_location applied to the value it returned
Resanitize ==
    /\ pc = "sanitized"
    /\ resanitized' = sanitize_location(sanitized)
    /\ pc' = "resanitized"
    /\ UNCHANGED <<raw_location, sanitized, question, disabled, requests,
                   reply, tags, result, parsed, weather_data, d0,
                   selected_days, answer>>

InitSanitize ==
    /\ pc = "ready"
    /\ raw_location \in {None} \cup RawsOf(RawPieces, MaxPieces)
    /\ sanitized = Idle
    /\ resanitized = Idle
    /\ ParserAndResponseIdle

NextSanitize == Sanitize \/ Resanitize

SpecSanitize == InitSanitize /\ [][NextSanitize]_vars

(***************************************************************************)
(* Properties of parse_weather_question                                    *)
(***************************************************************************)
\* the decoded answer of the extractor in the current state
ReplyJson == JsonLoads(CallOllama(reply))

\* the tag set of the question in the current state
QuestionTags == Tags(Lower(QOrig(question)))

\* C1: whatever the question and whatever the extractor did, the returned
\* intent has days in 1..5, when among today, tomorrow, next_n_days,
\* attribute among the six attribute names, and tags within the nine tag
\* names.
C1_IntentWellFormed ==
    pc = "done" =>
        /\ result.days \in 1..5
        /\ result.when \in {"today", "tomorrow", "next_n_days"}
        /\ result.attribute \in {"temperature", "precipitation", "rain", "wind",
                                 "humidity", "summary"}
        /\ result.tags \subseteq {"umbrella", "feel_cold", "feel_warm", "feel_hot",
                                  "windy", "humid", "clothing", "outdoors", "safety"}

\* C1 witness: the extractor answered with days 9, a when and an attribute
\* outside the allowed values, and the call returned days 5, today, summary.
C1_Witness ==
    /\ pc = "done"
    /\ reply.kind = "ok"
    /\ ReplyJson.ok /\ ReplyJson.isobj
    /\ DictGet(ReplyJson.members, "days", JNull) = JInt(9)
    /\ DictGet(ReplyJson.members, "when", JNull) = JStr("weekend")
    /\ DictGet(ReplyJson.members, "attribute", JNull) = JStr("snow")
    /\ result.days = 5
    /\ result.when = "today"
    /\ result.attribute = "summary"
    /\ result.tags # {}

\* C4: when the extractor's text decodes to a JSON object, every field is
\* validated on its own and the intent is returned at once: the sanitized
\* location, days clamped to 1..5 and 3 when missing or invalid, when and
\* attribute replaced by "today" and "summary" when not allowed, with the
\* question's tags and text.  An invalid field does not discard the others.
C4_FieldsValidatedIndependently ==
    (pc = "done" /\ reply.kind = "ok" /\ ReplyJson.ok /\ ReplyJson.isobj) =>
        result = [location |-> LlmLocation(ReplyJson.members),
                  days |-> IF LlmDays(ReplyJson.members).ok
                           THEN ClampDays(LlmDays(ReplyJson.members).val)
                           ELSE 3,
                  when |-> LlmWhen(ReplyJson.members),
                  attribute |-> LlmAttribute(ReplyJson.members),
                  tags |-> QuestionTags,
                  question_text |-> QOrig(question)]

\* the attempt failed: the request raised, or its text is no JSON
AttemptFailed ==
    \/ reply.kind \in FailureKinds
    \/ reply.kind = "ok" /\ ~ReplyJson.ok

\* C5: a call sends at most one request, and none when the disable flag is
\* set or the question is empty or whitespace; after a failed attempt there
\* is still one request only, and the call returns the intent of the
\* rule-based extraction for that question.
C5_OneAttemptThenFallback ==
    /\ requests <= 1
    /\ (disabled \/ QOrig(question) = <<>>) => requests = 0
    /\ (pc = "done" /\ AttemptFailed) =>
          /\ requests = 1
          /\ result = RuleBased(QOrig(question), QuestionTags)

\* C5 witness: the one request timed out and the call returned the
\* rule-based intent of a question that names a window and a place.
C5_Witness ==
    /\ pc = "done"
    /\ reply.kind = "timeout"
    /\ requests = 1
    /\ result.when = "next_n_days"
    /\ result.days = 2
    /\ result.location = <<"p","e","r","t","h">>

\* the number N of the leftmost "next N day" with N of one or more digits,
\* or -1
NextNumberAt(s, i) ==
    LET a == i + 4
        d == SpacesThen(s, a)
        n == RunLen(s, d, Range(DigitChars), Len(s))
        e == SpacesThen(s, d + n)
    IN  IF /\ WordBoundary(s, i)
           /\ StartsAt(s, i, <<"n","e","x","t">>)
           /\ d > a
           /\ n >= 1
           /\ e > d + n
           /\ StartsAt(s, e, <<"d","a","y">>)
        THEN DigitsValue(SubSeq(s, d, d + n - 1))
        ELSE -1

NextNumber(s) ==
    LET hits == {i \in DOMAIN s : NextNumberAt(s, i) # -1}
    IN  IF hits = {} THEN -1
        ELSE NextNumberAt(s, CHOOSE h \in hits : \A g \in hits : h <= g)

\* C6: on the rule-based path the window is today with days 3; tomorrow
\* with days 1 if "tomorrow" appears; next_n_days with N clamped to 1..5 if
\* "next N day" appears for a number N of one or more digits; next_n_days
\* with days 3 if "weekend" appears; the last rule that matches wins.
C6_TimeWindowRules ==
    (pc = "done" /\ QOrig(question) # <<>>) =>
        LET qlow == Lower(QOrig(question))
            n    == NextNumber(qlow)
        IN  IF Contains(qlow, <<"w","e","e","k","e","n","d">>)
            THEN result.when = "next_n_days" /\ result.days = 3
            ELSE IF n # -1
            THEN result.when = "next_n_days" /\ result.days = Max(1, Min(5, n))
            ELSE IF Contains(qlow, <<"t","o","m","o","r","r","o","w">>)
            THEN result.when = "tomorrow" /\ result.days = 1
            ELSE result.when = "today" /\ result.days = 3

\* the place name that follows in, at or for, as the user wrote it
PlaceAsWritten(q) ==
    LET g == LocGroup(Lower(q))
    IN  IF g = <<>> THEN None
        ELSE OrNone(sanitize_location(SubSeq(q, g[1], g[2])))

\* C7: with the extractor disabled the location is the sanitized place name
\* after in, at or for, spelled and capitalised as the user wrote it ("Do I
\* need an umbrella tomorrow in Perth?" gives Perth, tomorrow, 1 day and the
\* umbrella tag; "What about next 4 days in Melbourne" gives Melbourne), and
\* absent when nothing matches or nothing is left.
C7_LocationAsWritten ==
    (pc = "done" /\ disabled /\ QOrig(question) # <<>>) =>
        /\ result.location = PlaceAsWritten(QOrig(question))
        /\ question = Q_Perth =>
              /\ result.location = <<"P","e","r","t","h">>
              /\ result.when = "tomorrow"
              /\ result.days = 1
              /\ "umbrella" \in result.tags
        /\ question = Q_Melbourne =>
              /\ result.location = <<"M","e","l","b","o","u","r","n","e">>
              /\ result.when = "next_n_days"
              /\ result.days = 4

\* C8: on the rule-based path the attribute is that of the first keyword
\* group present in the lower-cased question, in the order rain, wind,
\* humidity, temperature, and summary when none is present.
C8_AttributePriority ==
    (pc = "done" /\ QOrig(question) # <<>>) =>
        LET qlow == Lower(QOrig(question))
            rain == ContainsAny(qlow, RainKeywords)
            wind == ContainsAny(qlow, WindKeywords)
            hum  == ContainsAny(qlow, HumidityKeywords)
            temp == ContainsAny(qlow, TemperatureKeywords)
        IN  /\ rain => result.attribute \in {"rain", "precipitation"}
            /\ (~rain /\ wind) => result.attribute = "wind"
            /\ (~rain /\ ~wind /\ hum) => result.attribute = "humidity"
            /\ (~rain /\ ~wind /\ ~hum /\ temp) => result.attribute = "temperature"
            /\ (~rain /\ ~wind /\ ~hum /\ ~temp) => result.attribute = "summary"

\* C8 witness: a question with a rain keyword and a wind keyword got the
\* precipitation attribute.
C8_Witness ==
    /\ pc = "done"
    /\ ContainsAny(Lower(QOrig(question)), {<<"r","a","i","n">>})
    /\ ContainsAny(Lower(QOrig(question)), {<<"w","i","n","d","y">>})
    /\ result.attribute = "precipitation"

(***************************************************************************)
(* Properties of the response functions                                    *)
(***************************************************************************)
\* the first word of the lower-cased text, after leading whitespace
FirstWord(text) ==
    LET s == Lower(text)
        i == SpacesThen(s, 1)
        n == RunLen(s, i, {c \in Range(s) : IsWordChar(c)}, Len(s))
    IN  SubSeq(s, i, i + n - 1)

\* the number of the first rule of the lead sentence that the intent matches
LeadRule(p) ==
    IF "feel_cold" \in p.tags THEN 1
    ELSE IF p.tags \cap {"feel_warm", "feel_hot"} # {} THEN 2
    ELSE IF "umbrella" \in p.tags \/ p.attribute \in {"rain", "precipitation"} THEN 3
    ELSE IF "windy" \in p.tags \/ p.attribute = "wind" THEN 4
    ELSE IF "humid" \in p.tags \/ p.attribute = "humidity" THEN 5
    ELSE IF "clothing" \in p.tags THEN 6
    ELSE IF p.tags \cap {"safety", "outdoors"} # {} THEN 7
    ELSE IF FirstWord(p.question_text) \in YesNoOpeners THEN 8
    ELSE 9

\* C2: the lead sentence is that of the first rule the intent matches, in
\* the order feel_cold (yes iff average <= 16), feel_warm or feel_hot (yes
\* iff average >= 27), umbrella or rain (yes at rain >= 60, maybe at >= 30,
\* else no), wind (very windy at >= 60, somewhat at >= 40, else light),
\* humidity (muggy iff >= 70), clothing (cold at <= 16, warm at >= 27, else
\* mild), safety or outdoors (pleasantness verdict), a yes/no opening
\* (pleasantness verdict), else the neutral summary.
C2_LeadPrecedence ==
    pc = "answered" =>
        LET r    == LeadRule(parsed)
            avg  == _to_int(d0.avgtempC)
            cold == avg.ok /\ avg.val <= 16
            warm == avg.ok /\ avg.val >= 27
            rain == _max_rain_chance(d0)
            wind == _wind_max_kmph(d0)
            hum  == _avg_humidity(d0)
        IN  answer[1] =
              CASE r = 1 -> IF cold THEN "Yes, you will feel cold "
                            ELSE "No, it should feel "
                [] r = 2 -> IF warm THEN "Yes, it will feel warm "
                            ELSE "No, it won't be warm--more like "
                [] r = 3 -> IF rain >= 60 THEN "Yes, bring an umbrella "
                            ELSE IF rain >= 30
                            THEN "Maybe--pack a small umbrella just in case "
                            ELSE "No, you probably don't need an umbrella "
                [] r = 4 -> IF wind >= 60 THEN "Yes, it'll be very windy "
                            ELSE IF wind >= 40
                            THEN "Somewhat--expect windy conditions "
                            ELSE "No, just light to moderate winds "
                [] r = 5 -> IF hum >= 70 THEN "Yes, it may feel muggy "
                            ELSE "No, humidity looks manageable "
                [] r = 6 -> IF cold THEN "Yes, take a jacket--"
                            ELSE IF warm THEN "No heavy layers needed--"
                            ELSE "A light layer should be fine--"
                [] r \in {7, 8} -> _pleasant_yesno(d0)
                [] r = 9 -> "In "

\* C2 witness: an intent with the feel_cold and umbrella tags and the wind
\* attribute, on a day of 16 degrees with 60% rain, got the feel_cold answer.
C2_Witness ==
    /\ pc = "answered"
    /\ parsed.tags = {"feel_cold", "umbrella"}
    /\ parsed.attribute = "wind"
    /\ d0.avgtempC = <<"1","6">>
    /\ d0.hourly =
          <<Hour("1200", <<"6","0">>, <<"5">>, <<"4","0">>, "Heavy rain")>>
    /\ answer[1] = "Yes, you will feel cold "

\* C3: the slice is empty for an empty forecast; for tomorrow the second
\* record if there are two, else empty; for next_n_days the first
\* min(days, length) records; for today and any other value the first
\* record; and always a run of consecutive records of the forecast.
C3_SliceSelection ==
    pc = "answered" =>
        LET f == weather_data.forecast
            w == parsed.when
        IN  /\ f = <<>> => selected_days = <<>>
            /\ (f # <<>> /\ w = "tomorrow") =>
                  selected_days = IF Len(f) >= 2 THEN <<f[2]>> ELSE <<>>
            /\ (f # <<>> /\ w = "next_n_days") =>
                  selected_days = SubSeq(f, 1, Min(parsed.days, Len(f)))
            /\ (f # <<>> /\ w \notin {"tomorrow", "next_n_days"}) =>
                  selected_days = <<f[1]>>
            /\ \E a \in 1..(Len(f) + 1), b \in 0..Len(f) :
                  selected_days = SubSeq(f, a, b)

\* C9: for a non-empty forecast the answer is the lead sentence, an empty
\* line, a header that names the location, and one bullet line per selected
\* day in order; the header says Today or Tomorrow when one day is
\* selected, also for next_n_days, and "next N days" for N selected days
\* otherwise; a Tomorrow header is followed by the second record only.
C9_AnswerLayout ==
    (pc = "answered" /\ weather_data.present /\ selected_days # <<>>) =>
        LET n == Len(selected_days)
        IN  /\ Len(answer) = 3 + n
            /\ answer[1] = _human_first_sentence(parsed, weather_data,
                                                 selected_days[1])
            /\ answer[2] = <<>>
            /\ answer[3][2] = weather_data.location
            /\ IF n = 1
               THEN answer[3][4] \in {"Today", "Tomorrow"}
               ELSE answer[3][3] = " -- next " /\ answer[3][4] = IntText(n)
            /\ \A i \in 1..n :
                  answer[3 + i] = <<"* ">> \o _day_brief(selected_days[i])
            /\ (n = 1 /\ answer[3][4] = "Tomorrow") =>
                  /\ Len(weather_data.forecast) >= 2
                  /\ selected_days = <<weather_data.forecast[2]>>

\* C10: the verdict is No for rain >= 60, wind >= 60, an average
\* temperature <= 10 or >= 33, or humidity >= 85, worded by the first of
\* these that holds; else Maybe for rain in [30,60) or wind in [40,60);
\* else Yes.  9 degrees with rain 0, wind 5, humidity 40 gives No, and an
\* average that is missing or no number skips the temperature test only.
C10_PleasantVerdict ==
    pc = "answered" =>
        LET avg   == _to_int(d0.avgtempC)
            rain  == _max_rain_chance(d0)
            wind  == _wind_max_kmph(d0)
            hum   == _avg_humidity(d0)
            temp  == avg.ok /\ (avg.val <= 10 \/ avg.val >= 33)
            maybe == (30 <= rain /\ rain < 60) \/ (40 <= wind /\ wind < 60)
        IN  /\ rain >= 60 => answer = "No, conditions look wet."
            /\ (rain < 60 /\ wind >= 60) => answer = "No, it'll be very windy."
            /\ (rain < 60 /\ wind < 60 /\ temp) =>
                  answer = "No, temperatures look uncomfortable."
            /\ (rain < 60 /\ wind < 60 /\ ~temp /\ hum >= 85) =>
                  answer = "No, it may feel uncomfortably humid."
            /\ (rain < 60 /\ wind < 60 /\ ~temp /\ hum < 85 /\ maybe) =>
                  answer = "Maybe--conditions are borderline."
            /\ (rain < 60 /\ wind < 60 /\ ~temp /\ hum < 85 /\ ~maybe) =>
                  answer = "Yes, it should be pleasant."
            /\ (d0.avgtempC = <<"9">> /\ rain = 0 /\ wind = 5 /\ hum = 40) =>
                  answer = "No, temperatures look uncomfortable."
            /\ d0.avgtempC \in {None, <<"?">>} =>
                  answer # "No, temperatures look uncomfortable."

\* C10 witness: 9 degrees with rain 0, wind 5 and humidity 40 got the No of
\* the temperature test.
C10_Witness ==
    /\ pc = "answered"
    /\ d0.avgtempC = <<"9">>
    /\ _max_rain_chance(d0) = 0
    /\ _wind_max_kmph(d0) = 5
    /\ _avg_humidity(d0) = 40
    /\ answer = "No, temperatures look uncomfortable."

\* C11: for an absent forecast bundle the answer is the one line "Sorry, I
\* couldn't retrieve weather data right now.", whatever the intent; for a
\* bundle whose selected slice is empty it is the one line "Sorry, I
\* couldn't find a forecast for <location>."; neither has a lead sentence,
\* a header or a bullet line.
C11_FixedFailureAnswers ==
    pc = "answered" =>
        /\ ~weather_data.present =>
              answer = << <<"Sorry, I couldn't retrieve weather data right now.">> >>
        /\ (weather_data.present
             /\ _pick_day_slice(weather_data, parsed.when, parsed.days) = <<>>) =>
              answer = << <<"Sorry, I couldn't find a forecast for ",
                            weather_data.location, ".">> >>

\* C11 witness: a bundle for King's Lynn without daily records, asked for
\* tomorrow with a feel_cold tag, got the no-forecast line for King's Lynn.
C11_Witness ==
    /\ pc = "answered"
    /\ weather_data.present
    /\ weather_data.location = "King's Lynn"
    /\ weather_data.forecast = <<>>
    /\ parsed.when = "tomorrow"
    /\ parsed.tags = {"feel_cold"}
    /\ answer = << <<"Sorry, I couldn't find a forecast for ", "King's Lynn", ".">> >>

\* C12: split on whitespace, the value sanitize_location returns holds no
\* token that, lower-cased, is a time word or a preposition, and no token
\* of digits only, whatever the input; an input that is no string gives the
\* empty string.
C12_NoTimePrepDigitToken ==
    pc \in {"sanitized", "resanitized"} =>
        /\ \A tok \in Range(SplitOn(sanitized, {" ", "\t", "\n"})) :
              /\ Lower(tok) \notin _TIME_TOKENS \cup _PREP_TOKENS
              /\ ~IsDigitStr(tok)
        /\ raw_location = None => sanitized = <<>>

\* C12 witness: "On,Perth", with its capitalised preposition, came back as
\* "Perth".
C12_Witness ==
    /\ pc = "sanitized"
    /\ raw_location = <<"O","n",",","P","e","r","t","h">>
    /\ sanitized = <<"P","e","r","t","h">>

\* C13: sanitize_location applied to its own result returns that result.
C13_Idempotent ==
    pc = "resanitized" => resanitized = sanitized

\* C13 witness: "7,Perth", a number and a comma before the name, gave
\* "Perth" both times.
C13_Witness ==
    /\ pc = "resanitized"
    /\ raw_location = <<"7",",","P","e","r","t","h">>
    /\ sanitized = <<"P","e","r","t","h">>
    /\ resanitized = <<"P","e","r","t","h">>

====
